---- MODULE Spec2Model ----
(***************************************************************************)
(* A model of package null: the tri-state container Var[T] (null.go) and   *)
(* the recursive filtering engine FilterStruct / FilterMap (filter.go).    *)
(*                                                                         *)
(* SpecVar is the container's state machine: one Var[T] driven by its      *)
(* mutators, its two inward conversions and its two outward conversions.   *)
(* Spec is the filtering engine applied to bounded inputs, SpecTag the      *)
(* engine called with options. SpecHeap runs one call step by step on maps *)
(* that live in memory, SpecCalls runs FilterStruct calls concurrently.     *)
(***************************************************************************)
EXTENDS Integers, Sequences, FiniteSets, TLC

VARIABLES
    T,      \* the type argument of the container under test
    v,      \* the container: [set, valid, value]
    last,   \* the last call on the container: [op, pre, in, res, err]
    arg,    \* the value handed to the filtering engine
    fed,    \* the call that returned arg, "none" for an input of the caller's
    res,    \* the last call of the engine: [op, opts, m, err]
    heap,   \* the maps in memory: address -> (key -> value)
    input,  \* what the caller handed over: [heap, root]
    stack,  \* the frames of the running call, the innermost last
    ret,    \* the map a callee has just returned, 0 for none
    run,    \* the running call seen from outside: [status, m, err]
    pkg,    \* the package-level variable defaultFilterOpts
    calls   \* the FilterStruct calls in progress, one per goroutine

varVars == <<T, v, last>>
filterVars == <<arg, fed, res>>
heapVars == <<heap, input, stack, ret, run>>
callVars == <<pkg, calls>>
vars == <<T, v, last, arg, fed, res, heap, input, stack, ret, run, pkg, calls>>

-----------------------------------------------------------------------------
(* Bounds *)

\* payload integers are 0..MaxPayload (and -1)
MaxPayload == 2
\* customDefinedSlice payloads have at most MaxSliceLen elements
MaxSliceLen == 2

-----------------------------------------------------------------------------
(* Byte strings are sequences of one-character strings. *)

nullBytes == <<"n", "u", "l", "l">>

Digits == <<"0", "1", "2", "3", "4", "5", "6", "7", "8", "9">>

IsDigit(c) == \E d \in 1..10 : Digits[d] = c

DigitVal(c) == (CHOOSE d \in 1..10 : Digits[d] = c) - 1

RECURSIVE Itoa(_)
Itoa(n) ==
    IF n < 0 THEN <<"-">> \o Itoa(0 - n)
    ELSE IF n < 10 THEN <<Digits[n + 1]>>
    ELSE Itoa(n \div 10) \o <<Digits[(n % 10) + 1]>>

RECURSIVE Atoi(_)
Atoi(s) ==
    IF s = <<>> THEN 0
    ELSE IF s[1] = "-" THEN 0 - Atoi(Tail(s))
    ELSE Atoi(SubSeq(s, 1, Len(s) - 1)) * 10 + DigitVal(s[Len(s)])

\* a JSON integer literal: optional sign, digits, no leading zero
IsIntLit(s) ==
    LET d == IF s # <<>> /\ s[1] = "-" THEN Tail(s) ELSE s IN
    /\ d # <<>>
    /\ \A i \in 1..Len(d) : IsDigit(d[i])
    /\ (Len(d) > 1 => d[1] # "0")

IsSpace(c) == c \in {" ", "\t", "\n", "\r"}

RECURSIVE TrimLeft(_)
TrimLeft(s) == IF s # <<>> /\ IsSpace(s[1]) THEN TrimLeft(Tail(s)) ELSE s

RECURSIVE TrimRight(_)
TrimRight(s) ==
    IF s # <<>> /\ IsSpace(s[Len(s)]) THEN TrimRight(SubSeq(s, 1, Len(s) - 1)) ELSE s

TrimSpace(s) == TrimRight(TrimLeft(s))

\* a Split that never cuts
SplitWhole(s, sep) == <<s>>

\* strings.Split(s, sep) for a one-character separator
RECURSIVE Split(_, _)
Split(s, sep) ==
    IF \A i \in 1..Len(s) : s[i] # sep THEN <<s>>
    ELSE LET i == CHOOSE j \in 1..Len(s) :
                      s[j] = sep /\ \A k \in 1..(j - 1) : s[k] # sep
         IN <<SubSeq(s, 1, i - 1)>> \o Split(SubSeq(s, i + 1, Len(s)), sep)

RECURSIVE Join(_, _)
Join(parts, sep) ==
    IF parts = <<>> THEN <<>>
    ELSE IF Len(parts) = 1 THEN parts[1]
    ELSE parts[1] \o <<sep>> \o Join(Tail(parts), sep)

-----------------------------------------------------------------------------
(* Dynamic values (Go's any) met by the container: every one is a record   *)
(* of the same shape, told apart by kind.                                  *)

Dyn(kind, isNil, n, elems, bytes) ==
    [kind |-> kind, isNil |-> isNil, n |-> n, elems |-> elems, bytes |-> bytes]

Nil == Dyn("nil", TRUE, 0, <<>>, <<>>)
Int64(n) == Dyn("int64", FALSE, n, <<>>, <<>>)
Bool(b) == Dyn("bool", FALSE, IF b THEN 1 ELSE 0, <<>>, <<>>)
Bytes(b) == Dyn("bytes", FALSE, 0, <<>>, b)
NilSlice == Dyn("customDefinedSlice", TRUE, 0, <<>>, <<>>)
Slice(e) == Dyn("customDefinedSlice", FALSE, 0, e, <<>>)

Types == {"int64", "customDefinedSlice"}

\* var def T
Zero(t) == IF t = "int64" THEN Int64(0) ELSE NilSlice

Ints == (0..MaxPayload) \cup {0 - 1}

SeqsUpTo(S, n) == UNION {[1..k -> S] : k \in 0..n}

Payloads(t) ==
    IF t = "int64" THEN {Int64(n) : n \in Ints}
    ELSE {NilSlice} \cup {Slice(e) : e \in SeqsUpTo({0, MaxPayload}, MaxSliceLen)}

\* the type implements driver.Valuer
IsValuer(t) == t = "customDefinedSlice"

-----------------------------------------------------------------------------
(* encoding/json on the payload types *)

NoErr == "nil"

\* json.Marshal(payload)
jsonMarshal(p) ==
    IF p.kind = "int64" THEN Itoa(p.n)
    ELSE IF p.isNil THEN nullBytes
    ELSE <<"[">> \o Join([i \in 1..Len(p.elems) |-> Itoa(p.elems[i])], ",") \o <<"]">>

IsIntArray(t) ==
    /\ Len(t) >= 2
    /\ t[1] = "["
    /\ t[Len(t)] = "]"
    /\ LET inner == TrimSpace(SubSeq(t, 2, Len(t) - 1)) IN
       \/ inner = <<>>
       \/ LET parts == Split(inner, ",") IN
          \A i \in 1..Len(parts) : IsIntLit(TrimSpace(parts[i]))

ArrayElems(t) ==
    LET inner == TrimSpace(SubSeq(t, 2, Len(t) - 1)) IN
    IF inner = <<>> THEN <<>>
    ELSE LET parts == Split(inner, ",") IN
         [i \in 1..Len(parts) |-> Atoi(TrimSpace(parts[i]))]

IsStringLit(t) ==
    /\ Len(t) >= 2
    /\ t[1] = "\""
    /\ t[Len(t)] = "\""
    /\ \A i \in 2..(Len(t) - 1) : t[i] \notin {"\"", "\\"}

\* the JSON documents of the model: null, integers, integer arrays, strings
ValidJSON(t) == t = nullBytes \/ IsIntLit(t) \/ IsIntArray(t) \/ IsStringLit(t)

\* json.Unmarshal(data, &dest), dest of type t holding cur
jsonUnmarshal(t, data, cur) ==
    LET d == TrimSpace(data) IN
    IF ~ValidJSON(d) THEN [err |-> "SyntaxError", value |-> cur]
    ELSE IF d = nullBytes
    THEN [err |-> NoErr, value |-> IF t = "int64" THEN cur ELSE NilSlice]
    ELSE IF t = "int64"
    THEN IF IsIntLit(d) THEN [err |-> NoErr, value |-> Int64(Atoi(d))]
         ELSE [err |-> "UnmarshalTypeError", value |-> cur]
    ELSE IF IsIntArray(d) THEN [err |-> NoErr, value |-> Slice(ArrayElems(d))]
         ELSE [err |-> "UnmarshalTypeError", value |-> cur]

\* (u customDefinedSlice) Value()
customDefinedSliceValue(u) == [val |-> Bytes(jsonMarshal(u)), err |-> NoErr]

\* (u *customDefinedSlice) Scan(src)
customDefinedSliceScan(u, src) ==
    IF src.kind = "bytes" THEN jsonUnmarshal("customDefinedSlice", src.bytes, u)
    ELSE IF src.kind = "nil" THEN [err |-> NoErr, value |-> u]
    ELSE [err |-> "incompatible type", value |-> u]

\* convertAssign(&dest, src), dest of type t holding cur: the same type is
\* passed through, a type with its own decode hook decodes, anything else
\* is a type mismatch
convertAssign(t, cur, src) ==
    IF t = "customDefinedSlice" THEN customDefinedSliceScan(cur, src)
    ELSE IF src.kind = t THEN [err |-> NoErr, value |-> src]
    ELSE [err |-> "TypeMismatch", value |-> cur]

-----------------------------------------------------------------------------
(* Var[T]: c is the container, t its type argument *)

Var(set, valid, value) == [set |-> set, valid |-> valid, value |-> value]

\* Var[T]{}
ZeroVar(t) == Var(FALSE, FALSE, Zero(t))

Set(c, value) == Var(TRUE, TRUE, value)

\* Unset that leaves the payload in place
UnsetKeepsValue(t, c) == Var(FALSE, FALSE, c.value)

Unset(t, c) == Var(FALSE, FALSE, Zero(t))

\* SetNil that leaves the payload in place
SetNilKeepsValue(t, c) == Var(TRUE, FALSE, c.value)

SetNil(t, c) == Var(TRUE, FALSE, Zero(t))

Val(c) == c.value

IsSet(c) == c.set

Valid(c) == c.valid

\* MarshalJSON that yields null only when both flags are down
MarshalJSONBothFlags(c) ==
    IF ~c.valid /\ ~c.set THEN [data |-> nullBytes, err |-> NoErr]
    ELSE [data |-> jsonMarshal(c.value), err |-> NoErr]

MarshalJSON(c) ==
    IF ~c.valid \/ ~c.set THEN [data |-> nullBytes, err |-> NoErr]
    ELSE [data |-> jsonMarshal(c.value), err |-> NoErr]

\* UnmarshalJSON that does not reset the payload first
UnmarshalJSONKeepsValue(t, c, data) ==
    IF data = nullBytes THEN [v |-> Var(TRUE, FALSE, c.value), err |-> NoErr]
    ELSE LET r == jsonUnmarshal(t, data, c.value) IN
         [v |-> Var(TRUE, TRUE, r.value), err |-> r.err]

UnmarshalJSON(t, c, data) ==
    IF data = nullBytes THEN [v |-> Var(TRUE, FALSE, Zero(t)), err |-> NoErr]
    ELSE LET r == jsonUnmarshal(t, data, Zero(t)) IN
         [v |-> Var(TRUE, TRUE, r.value), err |-> r.err]

\* Value that does not look at valid
ValueIgnoresValid(t, c) ==
    IF ~c.set THEN [val |-> Nil, err |-> NoErr]
    ELSE IF IsValuer(t) THEN customDefinedSliceValue(c.value)
    ELSE [val |-> c.value, err |-> NoErr]

Value(t, c) ==
    IF ~c.set \/ ~c.valid THEN [val |-> Nil, err |-> NoErr]
    ELSE IF IsValuer(t) THEN customDefinedSliceValue(c.value)
    ELSE [val |-> c.value, err |-> NoErr]

\* Scan that puts the container back when the coercion fails
ScanRestoresOnError(t, c, src) ==
    IF src = Nil THEN [v |-> Var(TRUE, FALSE, Zero(t)), err |-> NoErr]
    ELSE LET r == convertAssign(t, c.value, src) IN
         IF r.err # NoErr THEN [v |-> c, err |-> r.err]
         ELSE [v |-> Var(TRUE, TRUE, r.value), err |-> r.err]

Scan(t, c, src) ==
    IF src = Nil THEN [v |-> Var(TRUE, FALSE, Zero(t)), err |-> NoErr]
    ELSE LET r == convertAssign(t, c.value, src) IN
         [v |-> Var(TRUE, TRUE, r.value), err |-> r.err]

isSet(c) == c.set

\* getVal that does not look at valid
getValIgnoresValid(c) == IF ~c.set THEN Nil ELSE c.value

getVal(c) == IF ~c.set \/ ~c.valid THEN Nil ELSE c.value

-----------------------------------------------------------------------------
(* Values of type any met by the filtering engine.  Besides the scalars    *)
(* above: a container, a map[string]any, a map[string]string, a struct, a  *)
(* pointer.  Keys and tag values are byte strings.                         *)

VarAny(c) == [kind |-> "Var", c |-> c]
AnyMap(m) == [kind |-> "map[string]any", isNil |-> FALSE, m |-> m]
NilAnyMap == [kind |-> "map[string]any", isNil |-> TRUE, m |-> <<>>]
StrMap(sm) == [kind |-> "map[string]string", sm |-> sm]
Struct(filterable, fields) ==
    [kind |-> "struct", filterable |-> filterable, fields |-> fields]
PtrTo(x) == [kind |-> "ptr", elem |-> x]

\* a struct field as reflection shows it: CanInterface, Anonymous, Tag,
\* Type.Kind() and the value
Field(exported, embedded, tags, kind, val) ==
    [exported |-> exported, embedded |-> embedded, tags |-> tags,
     kind |-> kind, val |-> val]

\* reflect.TypeOf(x).Kind()
Kind(x) ==
    IF x.kind \in {"Var", "struct"} THEN "struct"
    ELSE IF x.kind \in {"map[string]any", "map[string]string"} THEN "map"
    ELSE IF x.kind = "customDefinedSlice" THEN "slice"
    ELSE x.kind

\* the fields of a struct value; Var[T] has three unexported fields
Fields(x) ==
    IF x.kind = "Var"
    THEN <<Field(FALSE, FALSE, <<>>, "bool", Bool(x.c.set)),
           Field(FALSE, FALSE, <<>>, "bool", Bool(x.c.valid)),
           Field(FALSE, FALSE, <<>>, Kind(x.c.value), x.c.value)>>
    ELSE x.fields

\* fieldValue.(nullVar)
IsNullVar(x) == x.kind = "Var"

\* fieldValue.(Filterable)
IsFilterable(x) == x.kind = "struct" /\ x.filterable

\* structField.Tag.Lookup(tag)
Lookup(tags, tag) ==
    IF tag \in DOMAIN tags THEN [fTag |-> tags[tag], tagOk |-> TRUE]
    ELSE [fTag |-> <<>>, tagOk |-> FALSE]

defaultFilterOpts == [tag |-> "json"]

\* the two errors of the entry points
ErrNilInput == "input cannot be nil"
ErrNotAStruct == "invalid type. input must be a struct"

\* UseTag that stores the tag name even when it is empty
UseTagStoresEmpty(tag, f) == [f EXCEPT !.tag = tag]

\* UseTag(tag) applied to f
UseTag(tag, f) == IF tag = "" THEN f ELSE [f EXCEPT !.tag = tag]

EmptyMap == <<>>

\* retMap[k] = x
Put(retMap, k, x) == (k :> x) @@ retMap

RECURSIVE filterMap(_), filterMapLoop(_, _, _)
RECURSIVE filterStruct(_, _), filterStructLoop(_, _, _, _)

\* the loop body that keeps a nested map that filtered to nothing
filterMapEntryKeepsEmpty(m, k, retMap) ==
    LET val == m[k] IN
    IF IsNullVar(val)
    THEN IF ~isSet(val.c) THEN retMap
         ELSE Put(retMap, k, getVal(val.c))
    ELSE IF val.kind = "map[string]any"
    THEN Put(retMap, k, AnyMap(filterMap(val.m)))
    ELSE Put(retMap, k, val)

\* the loop body that does not test whether a container is set
filterMapEntryKeepsUnset(m, k, retMap) ==
    LET val == m[k] IN
    IF IsNullVar(val)
    THEN Put(retMap, k, getVal(val.c))
    ELSE IF val.kind = "map[string]any"
    THEN LET mm == filterMap(val.m) IN
         IF DOMAIN mm = {} THEN retMap
         ELSE Put(retMap, k, AnyMap(mm))
    ELSE Put(retMap, k, val)

\* one iteration of filterMap's loop, on the entry k of m
filterMapEntry(m, k, retMap) ==
    LET val == m[k] IN
    IF IsNullVar(val)
    THEN IF ~isSet(val.c) THEN retMap
         ELSE Put(retMap, k, getVal(val.c))
    ELSE IF val.kind = "map[string]any"
    THEN LET mm == filterMap(val.m) IN
         IF DOMAIN mm = {} THEN retMap
         ELSE Put(retMap, k, AnyMap(mm))
    ELSE Put(retMap, k, val)

filterMapLoop(m, todo, retMap) ==
    IF todo = {} THEN retMap
    ELSE LET k == CHOOSE x \in todo : TRUE IN
         filterMapLoop(m, todo \ {k}, filterMapEntry(m, k, retMap))

filterMap(m) == filterMapLoop(m, DOMAIN m, EmptyMap)

\* the loop body that nests a Filterable struct that filtered to nothing
filterStructFieldKeepsEmpty(tag, f, retMap) ==
    IF ~f.exported THEN retMap
    ELSE
    LET l == Lookup(f.tags, tag)
        tagOpts == Split(l.fTag, ",")
        fieldName == IF Len(tagOpts) > 0 THEN tagOpts[1] ELSE <<>>
        fieldValue == f.val
    IN
    IF ~l.tagOk /\ ~f.embedded THEN retMap
    ELSE IF \/ fieldName = <<"-">>
            \/ (fieldName = <<>> /\ ~f.embedded)
            \/ (fieldName = <<>> /\ f.embedded /\ f.kind # "struct")
    THEN retMap
    ELSE IF f.kind = "struct"
    THEN IF IsFilterable(fieldValue)
         THEN LET fs == filterStruct(tag, fieldValue) IN
              IF f.embedded /\ fieldName = <<>>
              THEN retMap @@ fs
              ELSE Put(retMap, fieldName, AnyMap(fs))
         ELSE IF IsNullVar(fieldValue)
         THEN IF isSet(fieldValue.c)
              THEN Put(retMap, fieldName, getVal(fieldValue.c))
              ELSE retMap
         ELSE IF fieldName # <<>>
         THEN Put(retMap, fieldName, fieldValue)
         ELSE retMap
    ELSE IF f.kind = "map"
    THEN IF fieldValue.kind = "map[string]any"
         THEN LET fm == filterMap(fieldValue.m) IN
              IF DOMAIN fm = {} THEN retMap
              ELSE Put(retMap, fieldName, AnyMap(fm))
         ELSE Put(retMap, fieldName, fieldValue)
    ELSE Put(retMap, fieldName, fieldValue)

\* the loop body that promotes an embedded Filterable struct whether it
\* has a key or not
filterStructFieldPromotesTagged(tag, f, retMap) ==
    IF ~f.exported THEN retMap
    ELSE
    LET l == Lookup(f.tags, tag)
        tagOpts == Split(l.fTag, ",")
        fieldName == IF Len(tagOpts) > 0 THEN tagOpts[1] ELSE <<>>
        fieldValue == f.val
    IN
    IF ~l.tagOk /\ ~f.embedded THEN retMap
    ELSE IF \/ fieldName = <<"-">>
            \/ (fieldName = <<>> /\ ~f.embedded)
            \/ (fieldName = <<>> /\ f.embedded /\ f.kind # "struct")
    THEN retMap
    ELSE IF f.kind = "struct"
    THEN IF IsFilterable(fieldValue)
         THEN LET fs == filterStruct(tag, fieldValue) IN
              IF f.embedded
              THEN retMap @@ fs
              ELSE IF DOMAIN fs = {} THEN retMap
              ELSE Put(retMap, fieldName, AnyMap(fs))
         ELSE IF IsNullVar(fieldValue)
         THEN IF isSet(fieldValue.c)
              THEN Put(retMap, fieldName, getVal(fieldValue.c))
              ELSE retMap
         ELSE IF fieldName # <<>>
         THEN Put(retMap, fieldName, fieldValue)
         ELSE retMap
    ELSE IF f.kind = "map"
    THEN IF fieldValue.kind = "map[string]any"
         THEN LET fm == filterMap(fieldValue.m) IN
              IF DOMAIN fm = {} THEN retMap
              ELSE Put(retMap, fieldName, AnyMap(fm))
         ELSE Put(retMap, fieldName, fieldValue)
    ELSE Put(retMap, fieldName, fieldValue)

\* the loop body that descends into every struct that is not a container
filterStructFieldDescendsPlain(tag, f, retMap) ==
    IF ~f.exported THEN retMap
    ELSE
    LET l == Lookup(f.tags, tag)
        tagOpts == Split(l.fTag, ",")
        fieldName == IF Len(tagOpts) > 0 THEN tagOpts[1] ELSE <<>>
        fieldValue == f.val
    IN
    IF ~l.tagOk /\ ~f.embedded THEN retMap
    ELSE IF \/ fieldName = <<"-">>
            \/ (fieldName = <<>> /\ ~f.embedded)
            \/ (fieldName = <<>> /\ f.embedded /\ f.kind # "struct")
    THEN retMap
    ELSE IF f.kind = "struct"
    THEN IF IsFilterable(fieldValue) \/ ~IsNullVar(fieldValue)
         THEN LET fs == filterStruct(tag, fieldValue) IN
              IF f.embedded /\ fieldName = <<>>
              THEN retMap @@ fs
              ELSE IF DOMAIN fs = {} THEN retMap
              ELSE Put(retMap, fieldName, AnyMap(fs))
         ELSE IF IsNullVar(fieldValue)
         THEN IF isSet(fieldValue.c)
              THEN Put(retMap, fieldName, getVal(fieldValue.c))
              ELSE retMap
         ELSE IF fieldName # <<>>
         THEN Put(retMap, fieldName, fieldValue)
         ELSE retMap
    ELSE IF f.kind = "map"
    THEN IF fieldValue.kind = "map[string]any"
         THEN LET fm == filterMap(fieldValue.m) IN
              IF DOMAIN fm = {} THEN retMap
              ELSE Put(retMap, fieldName, AnyMap(fm))
         ELSE Put(retMap, fieldName, fieldValue)
    ELSE Put(retMap, fieldName, fieldValue)

\* the loop body that keeps a map[string]any field that filtered to nothing
filterStructFieldKeepsEmptyMap(tag, f, retMap) ==
    IF ~f.exported THEN retMap
    ELSE
    LET l == Lookup(f.tags, tag)
        tagOpts == Split(l.fTag, ",")
        fieldName == IF Len(tagOpts) > 0 THEN tagOpts[1] ELSE <<>>
        fieldValue == f.val
    IN
    IF ~l.tagOk /\ ~f.embedded THEN retMap
    ELSE IF \/ fieldName = <<"-">>
            \/ (fieldName = <<>> /\ ~f.embedded)
            \/ (fieldName = <<>> /\ f.embedded /\ f.kind # "struct")
    THEN retMap
    ELSE IF f.kind = "struct"
    THEN IF IsFilterable(fieldValue)
         THEN LET fs == filterStruct(tag, fieldValue) IN
              IF f.embedded /\ fieldName = <<>>
              THEN retMap @@ fs
              ELSE IF DOMAIN fs = {} THEN retMap
              ELSE Put(retMap, fieldName, AnyMap(fs))
         ELSE IF IsNullVar(fieldValue)
         THEN IF isSet(fieldValue.c)
              THEN Put(retMap, fieldName, getVal(fieldValue.c))
              ELSE retMap
         ELSE IF fieldName # <<>>
         THEN Put(retMap, fieldName, fieldValue)
         ELSE retMap
    ELSE IF f.kind = "map"
    THEN IF fieldValue.kind = "map[string]any"
         THEN LET fm == filterMap(fieldValue.m) IN
              Put(retMap, fieldName, AnyMap(fm))
         ELSE Put(retMap, fieldName, fieldValue)
    ELSE Put(retMap, fieldName, fieldValue)

\* the loop body without the "-" rule
filterStructFieldEmitsDash(tag, f, retMap) ==
    IF ~f.exported THEN retMap
    ELSE
    LET l == Lookup(f.tags, tag)
        tagOpts == Split(l.fTag, ",")
        fieldName == IF Len(tagOpts) > 0 THEN tagOpts[1] ELSE <<>>
        fieldValue == f.val
    IN
    IF ~l.tagOk /\ ~f.embedded THEN retMap
    ELSE IF \/ (fieldName = <<>> /\ ~f.embedded)
            \/ (fieldName = <<>> /\ f.embedded /\ f.kind # "struct")
    THEN retMap
    ELSE IF f.kind = "struct"
    THEN IF IsFilterable(fieldValue)
         THEN LET fs == filterStruct(tag, fieldValue) IN
              IF f.embedded /\ fieldName = <<>>
              THEN retMap @@ fs
              ELSE IF DOMAIN fs = {} THEN retMap
              ELSE Put(retMap, fieldName, AnyMap(fs))
         ELSE IF IsNullVar(fieldValue)
         THEN IF isSet(fieldValue.c)
              THEN Put(retMap, fieldName, getVal(fieldValue.c))
              ELSE retMap
         ELSE IF fieldName # <<>>
         THEN Put(retMap, fieldName, fieldValue)
         ELSE retMap
    ELSE IF f.kind = "map"
    THEN IF fieldValue.kind = "map[string]any"
         THEN LET fm == filterMap(fieldValue.m) IN
              IF DOMAIN fm = {} THEN retMap
              ELSE Put(retMap, fieldName, AnyMap(fm))
         ELSE Put(retMap, fieldName, fieldValue)
    ELSE Put(retMap, fieldName, fieldValue)

\* the loop body whose promoted entries overwrite
filterStructFieldPromotionOverwrites(tag, f, retMap) ==
    IF ~f.exported THEN retMap
    ELSE
    LET l == Lookup(f.tags, tag)
        tagOpts == Split(l.fTag, ",")
        fieldName == IF Len(tagOpts) > 0 THEN tagOpts[1] ELSE <<>>
        fieldValue == f.val
    IN
    IF ~l.tagOk /\ ~f.embedded THEN retMap
    ELSE IF \/ fieldName = <<"-">>
            \/ (fieldName = <<>> /\ ~f.embedded)
            \/ (fieldName = <<>> /\ f.embedded /\ f.kind # "struct")
    THEN retMap
    ELSE IF f.kind = "struct"
    THEN IF IsFilterable(fieldValue)
         THEN LET fs == filterStruct(tag, fieldValue) IN
              IF f.embedded /\ fieldName = <<>>
              THEN fs @@ retMap
              ELSE IF DOMAIN fs = {} THEN retMap
              ELSE Put(retMap, fieldName, AnyMap(fs))
         ELSE IF IsNullVar(fieldValue)
         THEN IF isSet(fieldValue.c)
              THEN Put(retMap, fieldName, getVal(fieldValue.c))
              ELSE retMap
         ELSE IF fieldName # <<>>
         THEN Put(retMap, fieldName, fieldValue)
         ELSE retMap
    ELSE IF f.kind = "map"
    THEN IF fieldValue.kind = "map[string]any"
         THEN LET fm == filterMap(fieldValue.m) IN
              IF DOMAIN fm = {} THEN retMap
              ELSE Put(retMap, fieldName, AnyMap(fm))
         ELSE Put(retMap, fieldName, fieldValue)
    ELSE Put(retMap, fieldName, fieldValue)

\* one iteration of filterStruct's loop, on the field f
filterStructField(tag, f, retMap) ==
    IF ~f.exported THEN retMap
    ELSE
    LET l == Lookup(f.tags, tag)
        tagOpts == Split(l.fTag, ",")
        fieldName == IF Len(tagOpts) > 0 THEN tagOpts[1] ELSE <<>>
        fieldValue == f.val
    IN
    IF ~l.tagOk /\ ~f.embedded THEN retMap
    ELSE IF \/ fieldName = <<"-">>
            \/ (fieldName = <<>> /\ ~f.embedded)
            \/ (fieldName = <<>> /\ f.embedded /\ f.kind # "struct")
    THEN retMap
    ELSE IF f.kind = "struct"
    THEN IF IsFilterable(fieldValue)
         THEN LET fs == filterStruct(tag, fieldValue) IN
              IF f.embedded /\ fieldName = <<>>
              THEN retMap @@ fs
              ELSE IF DOMAIN fs = {} THEN retMap
              ELSE Put(retMap, fieldName, AnyMap(fs))
         ELSE IF IsNullVar(fieldValue)
         THEN IF isSet(fieldValue.c)
              THEN Put(retMap, fieldName, getVal(fieldValue.c))
              ELSE retMap
         ELSE IF fieldName # <<>>
         THEN Put(retMap, fieldName, fieldValue)
         ELSE retMap
    ELSE IF f.kind = "map"
    THEN IF fieldValue.kind = "map[string]any"
         THEN LET fm == filterMap(fieldValue.m) IN
              IF DOMAIN fm = {} THEN retMap
              ELSE Put(retMap, fieldName, AnyMap(fm))
         ELSE Put(retMap, fieldName, fieldValue)
    ELSE Put(retMap, fieldName, fieldValue)

filterStructLoop(tag, fields, i, retMap) ==
    IF i > Len(fields) THEN retMap
    ELSE filterStructLoop(tag, fields, i + 1,
                          filterStructField(tag, fields[i], retMap))

filterStruct(tag, s) ==
    IF s = Nil THEN EmptyMap
    ELSE filterStructLoop(tag, Fields(s), 1, EmptyMap)

\* only the first option is applied
applyOptsFirstOnly(fOpts, opts) ==
    IF opts = <<>> THEN fOpts ELSE UseTag(Head(opts), fOpts)

\* the options applied in order to a copy of defaultFilterOpts
RECURSIVE applyOpts(_, _)
applyOpts(fOpts, opts) ==
    IF opts = <<>> THEN fOpts
    ELSE applyOpts(UseTag(Head(opts), fOpts), Tail(opts))

\* FilterStruct that leaves a nil input to filterStruct's own nil check
FilterStructNilOk(s, opts) ==
    IF s = Nil THEN [m |-> AnyMap(filterStruct(defaultFilterOpts.tag, s)), err |-> NoErr]
    ELSE IF Kind(s) # "struct"
    THEN [m |-> NilAnyMap, err |-> ErrNotAStruct]
    ELSE LET fOpts == applyOpts(defaultFilterOpts, opts) IN
         [m |-> AnyMap(filterStruct(fOpts.tag, s)), err |-> NoErr]

FilterStruct(s, opts) ==
    IF s = Nil THEN [m |-> NilAnyMap, err |-> ErrNilInput]
    ELSE IF Kind(s) # "struct"
    THEN [m |-> NilAnyMap, err |-> ErrNotAStruct]
    ELSE LET fOpts == applyOpts(defaultFilterOpts, opts) IN
         [m |-> AnyMap(filterStruct(fOpts.tag, s)), err |-> NoErr]

\* FilterMap that returns a nil mapping when no entry survives
FilterMapNilWhenEmpty(m) ==
    IF m.isNil THEN [m |-> NilAnyMap, err |-> ErrNilInput]
    ELSE LET retMap == filterMap(m.m) IN
         IF DOMAIN retMap = {} THEN [m |-> NilAnyMap, err |-> NoErr]
         ELSE [m |-> AnyMap(retMap), err |-> NoErr]

\* FilterMap that tests len(m) == 0 in place of m == nil
FilterMapEmptyIsNil(m) ==
    IF m.isNil \/ DOMAIN m.m = {} THEN [m |-> NilAnyMap, err |-> ErrNilInput]
    ELSE [m |-> AnyMap(filterMap(m.m)), err |-> NoErr]

FilterMap(m) ==
    IF m.isNil THEN [m |-> NilAnyMap, err |-> ErrNilInput]
    ELSE [m |-> AnyMap(filterMap(m.m)), err |-> NoErr]

-----------------------------------------------------------------------------
(* The parts of the state a specification does not use *)

\* no call is running on maps in memory
HeapIdle ==
    /\ heap = <<>>
    /\ input = [heap |-> <<>>, root |-> Nil]
    /\ stack = <<>>
    /\ ret = 0
    /\ run = [status |-> "idle", m |-> NilAnyMap, err |-> NoErr]

\* no goroutine is calling FilterStruct
CallsIdle ==
    /\ pkg = defaultFilterOpts
    /\ calls = <<>>

-----------------------------------------------------------------------------
(* The container's state machine *)

\* the byte strings handed to UnmarshalJSON and, as []byte, to Scan
JSONInputs ==
    {jsonMarshal(p) : p \in Payloads("int64") \cup Payloads("customDefinedSlice")}
        \cup {<<" ">> \o nullBytes, <<"x">>, <<"\"", "a", "\"">>, <<>>}

\* the driver values handed to Scan
ScanSrcs(t) ==
    IF t = "int64" THEN {Nil, Bool(TRUE)} \cup Payloads("int64")
    ELSE {Nil, Int64(1)} \cup {Bytes(b) : b \in JSONInputs}

Call(op, in, r, e) == [op |-> op, pre |-> v, in |-> in, res |-> r, err |-> e]

NoCall(t) == [op |-> "new", pre |-> ZeroVar(t), in |-> Nil, res |-> Nil, err |-> NoErr]

NoRes == [op |-> "none", opts |-> <<>>, m |-> NilAnyMap, err |-> NoErr]

InitVar ==
    /\ T \in Types
    /\ v = ZeroVar(T)
    /\ last = NoCall(T)
    /\ arg = Nil
    /\ fed = "none"
    /\ res = NoRes
    /\ HeapIdle /\ CallsIdle

DoSet ==
    \E value \in Payloads(T) :
        /\ v' = Set(v, value)
        /\ last' = Call("Set", value, Nil, NoErr)
        /\ UNCHANGED T

DoUnset ==
    /\ v' = Unset(T, v)
    /\ last' = Call("Unset", Nil, Nil, NoErr)
    /\ UNCHANGED T

DoSetNil ==
    /\ v' = SetNil(T, v)
    /\ last' = Call("SetNil", Nil, Nil, NoErr)
    /\ UNCHANGED T

DoMarshalJSON ==
    LET r == MarshalJSON(v) IN
    /\ last' = Call("MarshalJSON", Nil, Bytes(r.data), r.err)
    /\ UNCHANGED <<T, v>>

DoUnmarshalJSON ==
    \E data \in JSONInputs :
        LET r == UnmarshalJSON(T, v, data) IN
        /\ v' = r.v
        /\ last' = Call("UnmarshalJSON", Bytes(data), Nil, r.err)
        /\ UNCHANGED T

DoValue ==
    LET r == Value(T, v) IN
    /\ last' = Call("Value", Nil, r.val, r.err)
    /\ UNCHANGED <<T, v>>

DoScan ==
    \E src \in ScanSrcs(T) :
        LET r == Scan(T, v, src) IN
        /\ v' = r.v
        /\ last' = Call("Scan", src, Nil, r.err)
        /\ UNCHANGED T

NextVar ==
    \/ DoSet /\ UNCHANGED <<filterVars, heapVars, callVars>>
    \/ DoUnset /\ UNCHANGED <<filterVars, heapVars, callVars>>
    \/ DoSetNil /\ UNCHANGED <<filterVars, heapVars, callVars>>
    \/ DoMarshalJSON /\ UNCHANGED <<filterVars, heapVars, callVars>>
    \/ DoUnmarshalJSON /\ UNCHANGED <<filterVars, heapVars, callVars>>
    \/ DoValue /\ UNCHANGED <<filterVars, heapVars, callVars>>
    \/ DoScan /\ UNCHANGED <<filterVars, heapVars, callVars>>

SpecVar == InitVar /\ [][NextVar]_vars

-----------------------------------------------------------------------------
(* The inputs of the filtering engine *)

\* the total number of entries of a map[string]any input, nested maps included
MaxEntries == 3
\* the number of fields of a struct input
MaxFields == 2

Keys == {<<"a">>, <<"b">>}

\* containers in the states the mutators produce
VU == VarAny(Unset("int64", ZeroVar("int64")))
VN == VarAny(SetNil("int64", ZeroVar("int64")))
VV(n) == VarAny(Set(ZeroVar("int64"), Int64(n)))
\* a Var[map[string]any] holding an empty map, a Var[Var[int64]] holding an
\* unset container
VMap == VarAny(Set(Var(FALSE, FALSE, NilAnyMap), AnyMap(EmptyMap)))
VVar == VarAny(Set(Var(FALSE, FALSE, VU), VU))

SomeStrMap == StrMap(<<"k">> :> "s")

MapLeaves ==
    {Nil, Int64(1), VU, VN, VV(0), VV(2), VMap, VVar, SomeStrMap, NilAnyMap}

RECURSIVE MapsOver(_, _)
\* the entry values that count for c entries
EntryVals(c) ==
    IF c = 1 THEN MapLeaves \cup {AnyMap(EmptyMap)}
    ELSE {AnyMap(f) : f \in MapsOver(Keys, c - 1)}

\* the maps with keys among keys and n entries in all
MapsOver(keys, n) ==
    IF keys = {} THEN (IF n = 0 THEN {EmptyMap} ELSE {})
    ELSE LET k == CHOOSE x \in keys : TRUE
             rest == keys \ {k}
         IN MapsOver(rest, n) \cup
            UNION {{Put(f, k, x) : f \in MapsOver(rest, n - c), x \in EntryVals(c)} :
                   c \in 1..n}

MapInputs ==
    {NilAnyMap} \cup {AnyMap(f) : f \in UNION {MapsOver(Keys, n) : n \in 0..MaxEntries}}

A == <<"a">>
B == <<"b">>
C == <<"c">>
Omitempty == <<",", "o", "m", "i", "t", "e", "m", "p", "t", "y">>

NoTags == <<>>
JsonTag(s) == "json" :> s
BothTags(s, t) == ("json" :> s) @@ ("custom_tag" :> t)

\* the embedded Filterable interface of a struct that opts in
Marker == Field(TRUE, TRUE, NoTags, "interface", Nil)

FilterableStruct(fs) == Struct(TRUE, <<Marker>> \o fs)
PlainStruct(fs) == Struct(FALSE, fs)

\* a named field of the type of x
Named(exported, tags, x) == Field(exported, FALSE, tags, Kind(x), x)
\* an embedded field of the type of x
Embedded(tags, x) == Field(TRUE, TRUE, tags, Kind(x), x)

InnerFields ==
    {Named(TRUE, tg, x) : tg \in {JsonTag(A), BothTags(B, C)},
                          x \in {Int64(3), VU, VV(2)}}

NestedStructs ==
    LET fss == {<<>>} \cup {<<f>> : f \in InnerFields} IN
    {FilterableStruct(fs) : fs \in fss} \cup {PlainStruct(fs) : fs \in fss}

FA3 == FilterableStruct(<<Named(TRUE, JsonTag(A), Int64(3))>>)
FAU == FilterableStruct(<<Named(TRUE, JsonTag(A), VU)>>)
PA3 == PlainStruct(<<Named(TRUE, JsonTag(A), Int64(3))>>)

TopFields ==
    {Named(TRUE, JsonTag(A), x) :
        x \in {Int64(1), VU, VN, VV(2), NilAnyMap, AnyMap(A :> VU),
               AnyMap(A :> Int64(1)), SomeStrMap} \cup NestedStructs}
    \cup {Named(TRUE, BothTags(B, C), x) : x \in {Int64(1), VU, VV(2), FA3}}
    \cup {Named(TRUE, JsonTag(B), x) : x \in {NilAnyMap, AnyMap(A :> VU), AnyMap(A :> VN)}}
    \cup {Named(FALSE, JsonTag(A), x) : x \in {Int64(1), VV(2)}}
    \cup {Named(TRUE, tg, x) :
            tg \in {NoTags, JsonTag(<<"-">>), JsonTag(<<>>), JsonTag(Omitempty)},
            x \in {Int64(1), VV(2)}}
    \cup {Named(TRUE, JsonTag(A \o Omitempty), x) : x \in {Int64(0), Int64(1), VU}}
    \cup {Embedded(NoTags, x) : x \in NestedStructs \cup {VU, VV(2)}}
    \cup {Marker}
    \cup {Embedded(JsonTag(B), x) : x \in {FA3, FAU, PA3, VV(2)}}
    \cup {Embedded(JsonTag(<<"-">>), FA3)}
    \cup {Field(TRUE, FALSE, JsonTag(A), "interface", x) : x \in {Nil, VV(2)}}

StructInputs ==
    {PlainStruct(fs) : fs \in SeqsUpTo(TopFields, MaxFields)}

OtherInputs == {Nil, Int64(1), VU, PtrTo(PA3)}

Inputs == MapInputs \cup StructInputs \cup OtherInputs

-----------------------------------------------------------------------------
(* The engine applied to the inputs *)

Init ==
    /\ T = "int64"
    /\ v = ZeroVar(T)
    /\ last = NoCall(T)
    /\ arg \in Inputs
    /\ fed = "none"
    /\ res = NoRes
    /\ HeapIdle /\ CallsIdle

DoFilterStruct ==
    LET r == FilterStruct(arg, <<>>) IN
    /\ res' = [op |-> "FilterStruct", opts |-> <<>>, m |-> r.m, err |-> r.err]
    /\ UNCHANGED <<arg, fed>>

\* FilterMap takes a map[string]any
DoFilterMap ==
    /\ arg.kind = "map[string]any"
    /\ LET r == FilterMap(arg) IN
       res' = [op |-> "FilterMap", opts |-> <<>>, m |-> r.m, err |-> r.err]
    /\ UNCHANGED <<arg, fed>>

\* the caller hands the mapping it got back to the engine again
Refeed ==
    /\ res.op # "none"
    /\ res.err = NoErr
    /\ fed = "none"
    /\ arg' = res.m
    /\ fed' = res.op
    /\ res' = NoRes

Next ==
    \/ DoFilterStruct /\ UNCHANGED <<varVars, heapVars, callVars>>
    \/ DoFilterMap /\ UNCHANGED <<varVars, heapVars, callVars>>
    \/ Refeed /\ UNCHANGED <<varVars, heapVars, callVars>>

Spec == Init /\ [][Next]_vars

-----------------------------------------------------------------------------
(* The engine called with options *)

CustomTag(s) == "custom_tag" :> s

\* nested structs whose fields differ in the tags they carry
TagNested ==
    {FilterableStruct(<<Named(TRUE, tg, x)>>) :
        tg \in {JsonTag(A), BothTags(B, C)}, x \in {Int64(3), VU}}
    \cup {PlainStruct(<<Named(TRUE, BothTags(B, C), VV(2))>>)}

TagTopFields ==
    {Named(TRUE, tg, x) :
        tg \in {JsonTag(A), CustomTag(A), BothTags(B, C), BothTags(A, <<"-">>)},
        x \in {Int64(1), VU, VV(2)}}
    \cup {Named(TRUE, tg, x) : tg \in {JsonTag(A), BothTags(B, C)}, x \in TagNested}
    \cup {Embedded(tg, x) : tg \in {NoTags, JsonTag(B), CustomTag(C)}, x \in TagNested}
    \cup {Embedded(NoTags, VV(2)), Marker}

TagInputs ==
    {PlainStruct(fs) : fs \in SeqsUpTo(TagTopFields, MaxFields)} \cup {Nil}

\* the lists of UseTag arguments a call is made with
OptLists ==
    {<<>>, <<"">>, <<"custom_tag">>, <<"custom_tag", "">>, <<"json", "custom_tag">>}

InitTag ==
    /\ T = "int64"
    /\ v = ZeroVar(T)
    /\ last = NoCall(T)
    /\ arg \in TagInputs
    /\ fed = "none"
    /\ res = NoRes
    /\ HeapIdle /\ CallsIdle

\* FilterStruct(arg, UseTag(opts[1]), ..., UseTag(opts[n]))
DoFilterStructUseTag ==
    \E opts \in OptLists :
        LET r == FilterStruct(arg, opts) IN
        /\ res' = [op |-> "FilterStruct", opts |-> opts, m |-> r.m, err |-> r.err]
        /\ UNCHANGED <<arg, fed>>

NextTag == DoFilterStructUseTag /\ UNCHANGED <<varVars, heapVars, callVars>>

SpecTag == InitTag /\ [][NextTag]_vars

-----------------------------------------------------------------------------
(* One call of the engine, step by step, on maps that live in memory *)

\* the number of maps the caller has in memory
MaxMaps == 2
\* the frames the stack has room for: more than an input without a cycle
\* needs (two struct frames and one frame per map)
MaxDepth == MaxMaps + 2

\* a map[string]any value: a reference to the map at address a
Ref(a) == [kind |-> "map[string]any", isNil |-> FALSE, addr |-> a]
\* a Var[map[string]any] that holds the map at address a
VRef(a) == VarAny(Set(Var(FALSE, FALSE, NilAnyMap), Ref(a)))

\* the address a map[string]any value refers to, 0 for the nil map
AddrOf(x) == IF x.isNil THEN 0 ELSE x.addr
\* the entries of the map at address a in the memory h
Entries(h, a) == IF a = 0 THEN EmptyMap ELSE h[a]

HeapVals == {VU, VV(2), VRef(1)} \cup {Ref(a) : a \in 1..MaxMaps}

\* the maps with keys among keys and values among vals
MapObjects(keys, vals) == UNION {[K -> vals] : K \in SUBSET keys}

\* the memories of the caller: the first map has up to two entries, the
\* others up to one; any entry may refer to any map, itself included
InputHeaps ==
    {h \in [1..MaxMaps -> MapObjects({A, B}, HeapVals)] :
        \A a \in 2..MaxMaps : DOMAIN h[a] \subseteq {A}}

HeapStructs ==
    {PlainStruct(<<Named(TRUE, JsonTag(A), Ref(1))>>),
     PlainStruct(<<Named(TRUE, JsonTag(A),
                         FilterableStruct(<<Named(TRUE, JsonTag(B), Ref(1))>>)),
                   Named(TRUE, JsonTag(B), Ref(MaxMaps))>>),
     PlainStruct(<<Named(TRUE, JsonTag(B), VRef(1)),
                   Embedded(NoTags,
                            FilterableStruct(<<Named(TRUE, JsonTag(A), Ref(1))>>))>>)}

\* what the caller passes
HeapRoots == {Nil, NilAnyMap, Ref(1)} \cup HeapStructs

NoPending == [on |-> FALSE, k |-> <<>>, promote |-> FALSE]

\* a frame of filterMap (m, todo) or of filterStruct (s, tag, i), with the
\* map it builds and the entry that waits for a callee's result
Frame(fn, m, s, tag, todo, i, retMap) ==
    [fn |-> fn, m |-> m, s |-> s, tag |-> tag, todo |-> todo, i |-> i,
     retMap |-> retMap, pending |-> NoPending]

Top == stack[Len(stack)]
SetTop(fr) == [stack EXCEPT ![Len(stack)] = fr]

\* retMap[k] = x on the map at address a
Write(h, a, k, x) == [h EXCEPT ![a] = Put(h[a], k, x)]

Running == run.status = "running" /\ stack # <<>>

\* a call whose callee builds its result in the map it was given
PushCallInPlace(stk, fr) ==
    IF Len(stk) >= MaxDepth
    THEN /\ run' = [status |-> "stack overflow", m |-> NilAnyMap, err |-> NoErr]
         /\ UNCHANGED <<heap, stack, ret>>
    ELSE /\ heap' = Append(heap, EmptyMap)
         /\ stack' = Append(stk, [fr EXCEPT !.retMap =
                                     IF fr.m # 0 THEN fr.m ELSE Len(heap) + 1])
         /\ ret' = 0
         /\ run' = [status |-> "running", m |-> NilAnyMap, err |-> NoErr]

\* the call of filterMap / filterStruct made from the stack stk: the callee
\* allocates its retMap, unless the stack has no room left
PushCall(stk, fr) ==
    IF Len(stk) >= MaxDepth
    THEN /\ run' = [status |-> "stack overflow", m |-> NilAnyMap, err |-> NoErr]
         /\ UNCHANGED <<heap, stack, ret>>
    ELSE /\ heap' = Append(heap, EmptyMap)
         /\ stack' = Append(stk, [fr EXCEPT !.retMap = Len(heap) + 1])
         /\ ret' = 0
         /\ run' = [status |-> "running", m |-> NilAnyMap, err |-> NoErr]

MapFrame(a) == Frame("filterMap", a, Nil, "", DOMAIN Entries(heap, a), 0, 0)
StructFrame(tag, s) == Frame("filterStruct", 0, s, tag, {}, 1, 0)

InitHeap ==
    /\ T = "int64"
    /\ v = ZeroVar(T)
    /\ last = NoCall(T)
    /\ arg = Nil
    /\ fed = "none"
    /\ res = NoRes
    /\ CallsIdle
    /\ heap \in InputHeaps
    /\ \E r \in HeapRoots : input = [heap |-> heap, root |-> r]
    /\ stack = <<>>
    /\ ret = 0
    /\ run = [status |-> "idle", m |-> NilAnyMap, err |-> NoErr]

\* FilterMap(input.root) up to its call of filterMap
EnterFilterMap ==
    /\ run.status = "idle"
    /\ input.root.kind = "map[string]any"
    /\ IF input.root.isNil
       THEN /\ run' = [status |-> "failed", m |-> NilAnyMap, err |-> ErrNilInput]
            /\ UNCHANGED <<heap, stack, ret>>
       ELSE PushCall(stack, MapFrame(input.root.addr))
    /\ UNCHANGED input

\* FilterStruct(input.root) up to its call of filterStruct
EnterFilterStruct ==
    /\ run.status = "idle"
    /\ IF input.root = Nil
       THEN /\ run' = [status |-> "failed", m |-> NilAnyMap, err |-> ErrNilInput]
            /\ UNCHANGED <<heap, stack, ret>>
       ELSE IF Kind(input.root) # "struct"
       THEN /\ run' = [status |-> "failed", m |-> NilAnyMap, err |-> ErrNotAStruct]
            /\ UNCHANGED <<heap, stack, ret>>
       ELSE PushCall(stack, StructFrame(defaultFilterOpts.tag, input.root))
    /\ UNCHANGED input

\* one iteration of filterMap's loop, on whichever entry range yields next
MapStep ==
    /\ Running /\ Top.fn = "filterMap" /\ ~Top.pending.on
    /\ \E k \in Top.todo :
        LET val == Entries(heap, Top.m)[k]
            fr == [Top EXCEPT !.todo = Top.todo \ {k}]
        IN
        IF IsNullVar(val)
        THEN /\ heap' = IF ~isSet(val.c) THEN heap
                        ELSE Write(heap, Top.retMap, k, getVal(val.c))
             /\ stack' = SetTop(fr)
             /\ UNCHANGED <<ret, run>>
        ELSE IF val.kind = "map[string]any"
        THEN PushCall(SetTop([fr EXCEPT !.pending =
                                 [on |-> TRUE, k |-> k, promote |-> FALSE]]),
                      MapFrame(AddrOf(val)))
        ELSE /\ heap' = Write(heap, Top.retMap, k, val)
             /\ stack' = SetTop(fr)
             /\ UNCHANGED <<ret, run>>
    /\ UNCHANGED input

\* filterMap goes on after the nested filterMap returned mm
MapResume ==
    /\ Running /\ Top.fn = "filterMap" /\ Top.pending.on /\ ret # 0
    /\ heap' = IF DOMAIN heap[ret] = {} THEN heap
               ELSE Write(heap, Top.retMap, Top.pending.k, Ref(ret))
    /\ stack' = SetTop([Top EXCEPT !.pending = NoPending])
    /\ ret' = 0
    /\ UNCHANGED <<input, run>>

\* one iteration of filterStruct's loop, on the field i
StructStep ==
    /\ Running /\ Top.fn = "filterStruct" /\ ~Top.pending.on
    /\ Top.i <= Len(Fields(Top.s))
    /\ LET f == Fields(Top.s)[Top.i]
           tag == Top.tag
           l == Lookup(f.tags, tag)
           tagOpts == Split(l.fTag, ",")
           fieldName == IF Len(tagOpts) > 0 THEN tagOpts[1] ELSE <<>>
           fieldValue == f.val
           fr == [Top EXCEPT !.i = Top.i + 1]
           Skip == /\ stack' = SetTop(fr)
                   /\ UNCHANGED <<heap, ret, run>>
           Emit(x) == /\ heap' = Write(heap, Top.retMap, fieldName, x)
                      /\ stack' = SetTop(fr)
                      /\ UNCHANGED <<ret, run>>
           Wait(promote) ==
               SetTop([fr EXCEPT !.pending =
                          [on |-> TRUE, k |-> fieldName, promote |-> promote]])
       IN
       IF ~f.exported THEN Skip
       ELSE IF ~l.tagOk /\ ~f.embedded THEN Skip
       ELSE IF \/ fieldName = <<"-">>
               \/ (fieldName = <<>> /\ ~f.embedded)
               \/ (fieldName = <<>> /\ f.embedded /\ f.kind # "struct")
       THEN Skip
       ELSE IF f.kind = "struct"
       THEN IF IsFilterable(fieldValue)
            THEN PushCall(Wait(f.embedded /\ fieldName = <<>>),
                          StructFrame(tag, fieldValue))
            ELSE IF IsNullVar(fieldValue)
            THEN IF isSet(fieldValue.c) THEN Emit(getVal(fieldValue.c)) ELSE Skip
            ELSE IF fieldName # <<>> THEN Emit(fieldValue) ELSE Skip
       ELSE IF f.kind = "map"
       THEN IF fieldValue.kind = "map[string]any"
            THEN PushCall(Wait(FALSE), MapFrame(AddrOf(fieldValue)))
            ELSE Emit(fieldValue)
       ELSE Emit(fieldValue)
    /\ UNCHANGED input

\* filterStruct goes on after the nested filterStruct or filterMap returned
StructResume ==
    /\ Running /\ Top.fn = "filterStruct" /\ Top.pending.on /\ ret # 0
    /\ heap' = IF Top.pending.promote
               THEN [heap EXCEPT ![Top.retMap] = heap[Top.retMap] @@ heap[ret]]
               ELSE IF DOMAIN heap[ret] = {} THEN heap
               ELSE Write(heap, Top.retMap, Top.pending.k, Ref(ret))
    /\ stack' = SetTop([Top EXCEPT !.pending = NoPending])
    /\ ret' = 0
    /\ UNCHANGED <<input, run>>

\* a return that never comes
ReturnNever ==
    /\ Running /\ ~Top.pending.on
    /\ IF Top.fn = "filterMap" THEN Top.todo = {}
       ELSE Top.i > Len(Fields(Top.s))
    /\ UNCHANGED heapVars

\* return retMap: to the caller's frame, or out of FilterMap / FilterStruct
Return ==
    /\ Running /\ ~Top.pending.on
    /\ IF Top.fn = "filterMap" THEN Top.todo = {}
       ELSE Top.i > Len(Fields(Top.s))
    /\ stack' = SubSeq(stack, 1, Len(stack) - 1)
    /\ IF Len(stack) = 1
       THEN /\ run' = [status |-> "returned", m |-> Ref(Top.retMap), err |-> NoErr]
            /\ ret' = 0
       ELSE /\ ret' = Top.retMap
            /\ UNCHANGED run
    /\ UNCHANGED <<heap, input>>

NextHeap ==
    \/ EnterFilterMap /\ UNCHANGED <<varVars, filterVars, callVars>>
    \/ EnterFilterStruct /\ UNCHANGED <<varVars, filterVars, callVars>>
    \/ MapStep /\ UNCHANGED <<varVars, filterVars, callVars>>
    \/ MapResume /\ UNCHANGED <<varVars, filterVars, callVars>>
    \/ StructStep /\ UNCHANGED <<varVars, filterVars, callVars>>
    \/ StructResume /\ UNCHANGED <<varVars, filterVars, callVars>>
    \/ Return /\ UNCHANGED <<varVars, filterVars, callVars>>

\* a call that is running goes on running
SpecHeap == InitHeap /\ [][NextHeap]_vars /\ WF_vars(NextHeap)

-----------------------------------------------------------------------------
(* FilterStruct calls running concurrently *)

\* the number of goroutines calling FilterStruct
MaxCalls == 2

CallArgs ==
    {Nil,
     PlainStruct(<<Named(TRUE, BothTags(A, B), VV(2))>>),
     PlainStruct(<<Named(TRUE, JsonTag(A), Int64(1)),
                   Named(TRUE, CustomTag(A), VN)>>)}

CallOpts == {<<>>, <<"custom_tag">>, <<"custom_tag", "">>}

\* a call about to start: its arguments, its position, its locals
NewCall(s, opts) ==
    [pc |-> "check", s |-> s, opts |-> opts, k |-> 1,
     fOpts |-> [tag |-> ""], m |-> NilAnyMap, err |-> NoErr]

InitCalls ==
    /\ T = "int64"
    /\ v = ZeroVar(T)
    /\ last = NoCall(T)
    /\ arg = Nil
    /\ fed = "none"
    /\ res = NoRes
    /\ HeapIdle
    /\ pkg = defaultFilterOpts
    /\ calls \in [1..MaxCalls -> {NewCall(s, opts) : s \in CallArgs, opts \in CallOpts}]

\* the call of p fails with its nil result and error
Fail(p, e) == calls' = [calls EXCEPT ![p].pc = "done", ![p].err = e]

\* the nil check and the kind check
CheckInput(p) ==
    /\ calls[p].pc = "check"
    /\ IF calls[p].s = Nil THEN Fail(p, ErrNilInput)
       ELSE IF Kind(calls[p].s) # "struct" THEN Fail(p, ErrNotAStruct)
       ELSE calls' = [calls EXCEPT ![p].pc = "copy"]
    /\ UNCHANGED pkg

\* fOpts := defaultFilterOpts
CopyDefaults(p) ==
    /\ calls[p].pc = "copy"
    /\ calls' = [calls EXCEPT ![p].fOpts = pkg, ![p].pc = "opts"]
    /\ UNCHANGED pkg

\* the options are applied to the package's variable, not to the copy
ApplyOptToPackage(p) ==
    /\ calls[p].pc = "opts"
    /\ calls[p].k <= Len(calls[p].opts)
    /\ pkg' = UseTag(calls[p].opts[calls[p].k], pkg)
    /\ calls' = [calls EXCEPT ![p].fOpts = pkg', ![p].k = calls[p].k + 1]

\* opt(&fOpts) for the next option
ApplyOpt(p) ==
    /\ calls[p].pc = "opts"
    /\ calls[p].k <= Len(calls[p].opts)
    /\ calls' = [calls EXCEPT
                    ![p].fOpts = UseTag(calls[p].opts[calls[p].k], calls[p].fOpts),
                    ![p].k = calls[p].k + 1]
    /\ UNCHANGED pkg

\* retMap := filterStruct(fOpts.tag, s); return retMap, nil
CallFilterStruct(p) ==
    /\ calls[p].pc = "opts"
    /\ calls[p].k > Len(calls[p].opts)
    /\ calls' = [calls EXCEPT
                    ![p].m = AnyMap(filterStruct(calls[p].fOpts.tag, calls[p].s)),
                    ![p].pc = "done"]
    /\ UNCHANGED pkg

NextCalls ==
    \/ \E p \in 1..MaxCalls : CheckInput(p) /\ UNCHANGED <<varVars, filterVars, heapVars>>
    \/ \E p \in 1..MaxCalls : CopyDefaults(p) /\ UNCHANGED <<varVars, filterVars, heapVars>>
    \/ \E p \in 1..MaxCalls : ApplyOpt(p) /\ UNCHANGED <<varVars, filterVars, heapVars>>
    \/ \E p \in 1..MaxCalls : CallFilterStruct(p) /\ UNCHANGED <<varVars, filterVars, heapVars>>

SpecCalls == InitCalls /\ [][NextCalls]_vars

-----------------------------------------------------------------------------
(* The container's contract (checked under SpecVar) *)

Unset_(c) == ~IsSet(c) /\ ~Valid(c) /\ Val(c) = Zero(T)
Null_(c) == IsSet(c) /\ ~Valid(c) /\ Val(c) = Zero(T)

\* C3: each mutator puts the container in a fixed state whatever the state
\* before: Set(x) gives set, valid and the payload x; SetNil gives set,
\* not valid and the zero payload; Unset gives not set, not valid and the
\* zero payload, which is also the state of the zero value Var[T]{}.
C3_MutatorsFixState ==
    /\ last.op = "Set" => IsSet(v) /\ Valid(v) /\ Val(v) = last.in
    /\ last.op = "SetNil" => Null_(v)
    /\ last.op = "Unset" => Unset_(v)
    /\ last.op = "new" => Unset_(v)

\* Unset has acted on a container that held a live, non-zero payload
C3_Witness ==
    /\ last.op = "Unset"
    /\ last.pre.set /\ last.pre.valid /\ last.pre.value # Zero(T)

\* C4: in every state reachable from Var[T]{} by Set, SetNil, Unset,
\* UnmarshalJSON and Scan, failed calls included: a container that is not
\* set is not valid and holds the zero payload, and a container that is
\* set and not valid holds the zero payload.
C4_ContainerInvariant ==
    /\ ~v.set => ~v.valid /\ v.value = Zero(T)
    /\ (v.set /\ ~v.valid) => v.value = Zero(T)

\* Scan(nil) has made an explicit null of a container with a live payload
C4_Witness ==
    /\ last.op = "Scan" /\ last.in = Nil
    /\ last.pre.valid /\ last.pre.value # Zero(T)
    /\ ~v.valid

\* C5 as amended: MarshalJSON yields the literal null and Value() yields nil
\* whenever the container is unset or invalid; otherwise MarshalJSON yields
\* the encoding of the payload and Value() the payload, or the result of the
\* payload's own driver.Valuer when it has one.
C5_OutwardConversions ==
    /\ last.op = "MarshalJSON" =>
        /\ last.err = NoErr
        /\ last.res = Bytes(IF ~v.set \/ ~v.valid THEN nullBytes
                            ELSE jsonMarshal(v.value))
    /\ last.op = "Value" =>
        /\ last.err = NoErr
        /\ last.res = (IF ~v.set \/ ~v.valid THEN Nil
                       ELSE IF IsValuer(T) THEN customDefinedSliceValue(v.value).val
                       ELSE v.value)

\* Value() has gone through the driver.Valuer of a live payload
C5_Witness ==
    /\ last.op = "Value"
    /\ v.set /\ v.valid /\ IsValuer(T)
    /\ last.res.kind = "bytes"

\* C5 as stated: the conversions report null exactly when the container is
\* unset or invalid.
C5_NullExactlyWhenUnsetOrInvalid ==
    /\ last.op = "MarshalJSON" =>
        (last.res = Bytes(nullBytes) <=> (~v.set \/ ~v.valid))
    /\ last.op = "Value" => (last.res = Nil <=> (~v.set \/ ~v.valid))

\* C6: UnmarshalJSON and Scan always leave the container set; on the null
\* marker (the bytes null, a nil src) it is not valid and holds the zero
\* payload; on any other input it is valid and, when decoding or coercion
\* succeeded, holds the decoded payload.
C6_InwardConversions ==
    /\ last.op = "UnmarshalJSON" =>
        /\ IsSet(v)
        /\ IF last.in.bytes = nullBytes THEN ~Valid(v) /\ Val(v) = Zero(T)
           ELSE /\ Valid(v)
                /\ last.err = NoErr =>
                       Val(v) = jsonUnmarshal(T, last.in.bytes, Zero(T)).value
                /\ \A p \in Payloads(T) :
                       last.in.bytes = jsonMarshal(p) =>
                           last.err = NoErr /\ Val(v) = p
    /\ last.op = "Scan" =>
        /\ IsSet(v)
        /\ IF last.in = Nil THEN ~Valid(v) /\ Val(v) = Zero(T)
           ELSE /\ Valid(v)
                /\ last.err = NoErr =>
                       Val(v) = convertAssign(T, last.pre.value, last.in).value
                /\ last.in.kind = T => last.err = NoErr /\ Val(v) = last.in

\* Scan has stored a payload in a container that was unset
C6_Witness ==
    /\ last.op = "Scan" /\ last.in # Nil /\ last.err = NoErr
    /\ ~last.pre.set
    /\ v.value # Zero(T)

-----------------------------------------------------------------------------
(* The engine's contract (checked under Spec) *)

\* the output key a field has under a tag name: the tag value up to its
\* first comma
KeyOf(f, tag) == Split(Lookup(f.tags, tag).fTag, ",")[1]

\* a key a field can be emitted under
Usable(key) == key # <<>> /\ key # <<"-">>

IsUnsetVar(x) == x.kind = "Var" /\ ~x.c.set
IsNullVar_(x) == x.kind = "Var" /\ x.c.set /\ ~x.c.valid

\* FilterStruct has returned the mapping of a struct
FilteredStruct == res.op = "FilterStruct" /\ arg.kind = "struct"

\* FilterMap has returned the mapping of a non-nil map
FilteredMap == res.op = "FilterMap" /\ ~arg.isNil

\* no two fields of the struct s itself have the same key under the tag
DistinctKeys(s, tag) ==
    \A i, j \in 1..Len(s.fields) :
        (i # j /\ Usable(KeyOf(s.fields[i], tag))) =>
            KeyOf(s.fields[i], tag) # KeyOf(s.fields[j], tag)

\* C1 as stated, for the structs whose own fields have pairwise distinct
\* keys: an exported field with a tag that holds an unset container makes
\* the mapping not contain that field's key, whatever the other fields of
\* the struct, embedded Filterable structs included, are.
C1_UnsetFieldVanishes ==
    (FilteredStruct /\ DistinctKeys(arg, "json")) =>
        \A i \in 1..Len(arg.fields) :
            LET f == arg.fields[i] IN
            (f.exported /\ "json" \in DOMAIN f.tags /\ IsUnsetVar(f.val)) =>
                KeyOf(f, "json") \notin DOMAIN res.m.m

RECURSIVE NullsSurvive(_, _)
\* out holds nil under every key of m that holds an explicit null, at every
\* depth of nested maps, and lacks every key of m that holds an unset
\* container
NullsSurvive(m, out) ==
    \A k \in DOMAIN m :
        /\ IsNullVar_(m[k]) => k \in DOMAIN out /\ out[k] = Nil
        /\ IsUnsetVar(m[k]) => k \notin DOMAIN out
        /\ (m[k].kind = "map[string]any" /\ k \in DOMAIN out) =>
               /\ out[k].kind = "map[string]any"
               /\ NullsSurvive(m[k].m, out[k].m)
        /\ (m[k].kind = "map[string]any" /\ k \notin DOMAIN out) =>
               \A j \in DOMAIN m[k].m : ~IsNullVar_(m[k].m[j])

C7_FilterStructErrors ==
    res.op = "FilterStruct" =>
        /\ arg = Nil => res.err = ErrNilInput /\ res.m = NilAnyMap
        /\ (arg # Nil /\ Kind(arg) # "struct") =>
               res.err = ErrNotAStruct /\ res.m = NilAnyMap

\* FilterStruct has refused a pointer to a struct
C7_Witness ==
    /\ res.op = "FilterStruct"
    /\ arg.kind = "ptr"
    /\ res.err = ErrNotAStruct

\* C8: FilterMap fails with "input cannot be nil" and a nil mapping exactly
\* when its argument is nil; for every other mapping, the empty one
\* included, it returns a mapping and no error.
C8_FilterMapNilInput ==
    res.op = "FilterMap" =>
        /\ arg.isNil <=> res.err = ErrNilInput
        /\ arg.isNil <=> res.m.isNil
        /\ ~arg.isNil => res.err = NoErr

\* FilterMap has returned a mapping for the empty, non-nil mapping
C8_Witness ==
    /\ res.op = "FilterMap"
    /\ arg = AnyMap(EmptyMap)
    /\ res.err = NoErr /\ ~res.m.isNil

RECURSIVE ExpectedFilterMap(_)
\* the mapping the claim describes, entry by entry
ExpectedFilterMap(m) ==
    LET Kept(x) ==
            IF x.kind = "Var" THEN x.c.set
            ELSE IF x.kind = "map[string]any"
            THEN DOMAIN ExpectedFilterMap(x.m) # {}
            ELSE TRUE
        Out(x) ==
            IF x.kind = "Var" THEN (IF x.c.valid THEN x.c.value ELSE Nil)
            ELSE IF x.kind = "map[string]any" THEN AnyMap(ExpectedFilterMap(x.m))
            ELSE x
    IN [k \in {j \in DOMAIN m : Kept(m[j])} |-> Out(m[k])]

\* C9: for a non-nil m, FilterMap(m) is the mapping built entry by entry: a
\* container is dropped when unset and otherwise kept with its effective
\* value (the payload, or nil for explicit null); a map[string]any is
\* replaced by its filtered mapping and dropped when that is empty; every
\* other entry is kept unchanged.
C9_FilterMapEntryByEntry ==
    FilteredMap => res.err = NoErr /\ res.m = AnyMap(ExpectedFilterMap(arg.m))

\* FilterMap has dropped a nested map that held only an unset container and
\* kept an explicit null as nil
C9_Witness ==
    /\ FilteredMap
    /\ arg.m = (A :> AnyMap(A :> VU)) @@ (B :> VN)
    /\ res.m.m = (B :> Nil)

\* C10 as stated: filtering the mapping FilterMap returned yields the same
\* mapping.
C10_FilterMapIdempotent ==
    (fed = "FilterMap" /\ res.op = "FilterMap") =>
        res.err = NoErr /\ res.m = arg

\* an embedded Filterable struct without a key: its entries are promoted
IsPromoted(f, tag) ==
    f.exported /\ f.embedded /\ KeyOf(f, tag) = <<>> /\ IsFilterable(f.val)

\* a field that is emitted under a key of its own
HasOwnKey(f, tag) ==
    f.exported /\ Usable(KeyOf(f, tag)) /\ f.kind # "interface"

\* the value a field with a key of its own stands for: a container's
\* effective value, a Filterable struct's or a map[string]any's filtered
\* mapping, any other value itself
OwnValue(f, tag) ==
    IF f.val.kind = "Var" THEN (IF f.val.c.set /\ f.val.c.valid THEN f.val.c.value ELSE Nil)
    ELSE IF f.val.kind = "struct" /\ f.val.filterable
    THEN AnyMap(filterStruct(tag, f.val))
    ELSE IF f.val.kind = "map[string]any" THEN AnyMap(filterMap(f.val.m))
    ELSE f.val

\* C11 as stated, for the structs whose own fields have pairwise distinct
\* keys: the entries of an embedded Filterable struct without a tag are
\* at the parent's top level, and under a key that a field of the parent
\* declares too the output holds the parent field's value.
C11_OuterFieldWins ==
    (FilteredStruct /\ DistinctKeys(arg, "json")) =>
        \A i, j \in 1..Len(arg.fields) :
            LET e == arg.fields[i]
                f == arg.fields[j]
                k == KeyOf(f, "json")
            IN (/\ IsPromoted(e, "json")
                /\ HasOwnKey(f, "json")
                /\ k \in DOMAIN filterStruct("json", e.val)) =>
                   k \in DOMAIN res.m.m /\ res.m.m[k] = OwnValue(f, "json")

\* a Filterable struct that is emitted under a key of its own, as a named
\* field or as an embedded field with a tag, and that filters to nothing
IsEmptyNested(f, tag) ==
    /\ HasOwnKey(f, tag) /\ IsFilterable(f.val)
    /\ DOMAIN filterStruct(tag, f.val) = {}

\* the keys that the untagged embedded Filterable structs of s hand up
PromotedKeys(s, tag) ==
    UNION {DOMAIN filterStruct(tag, s.fields[i].val) :
        i \in {j \in 1..Len(s.fields) : IsPromoted(s.fields[j], tag)}}

IsEmbeddedWithKey(f, tag) ==
    f.embedded /\ HasOwnKey(f, tag) /\ IsFilterable(f.val)

\* the keys that the exported fields of s carrying the tag have under it
OwnKeys(s, tag) ==
    {KeyOf(s.fields[i], tag) :
        i \in {j \in 1..Len(s.fields) :
                 s.fields[j].exported /\ tag \in DOMAIN s.fields[j].tags}}

\* s with the field i declared as a named field of the same type and tag
AsNamed(s, i) == [s EXCEPT !.fields[i].embedded = FALSE]

\* none of the keys of the embedded struct e, the field i of arg, is at the
\* parent's level, except a key that another field or a promoted entry
\* brings there
NotMerged(i) ==
    \A j \in DOMAIN filterStruct("json", arg.fields[i].val) :
        j \in DOMAIN res.m.m =>
            j \in OwnKeys(arg, "json") \cup PromotedKeys(arg, "json")

\* the mapping built from the fields declared before the field i of s
Before(s, i, tag) ==
    filterStructLoop(tag, SubSeq(s.fields, 1, i - 1), 1, EmptyMap)

\* the mapping that the fields declared after the field i of s make of
\* the mapping m built so far
After(s, i, tag, m) == filterStructLoop(tag, s.fields, i + 1, m)

IsPlainStructField(f) ==
    f.exported /\ f.kind = "struct" /\ f.val.kind = "struct" /\ ~f.val.filterable

RECURSIVE NoContainerIn(_)
\* no value of the mapping m, nor of a mapping nested in it, is a container
NoContainerIn(m) ==
    \A k \in DOMAIN m :
        /\ m[k].kind # "Var"
        /\ m[k].kind = "map[string]any" => NoContainerIn(m[k].m)

\* C17 as stated: no value stored in a mapping that FilterStruct or
\* FilterMap returned, at any nesting level, is a container itself.
C17_NoContainerInOutput ==
    (res.op # "none" /\ res.err = NoErr) => NoContainerIn(res.m.m)

\* C18: on success FilterStruct and FilterMap never return a nil mapping:
\* when no field or entry survives, the result is an empty mapping that is
\* not nil, together with a nil error.
C18_NeverNilOnSuccess ==
    /\ (res.op # "none" /\ res.err = NoErr) =>
           res.m.kind = "map[string]any" /\ ~res.m.isNil
    /\ FilteredMap => res.err = NoErr
    /\ FilteredStruct => res.err = NoErr
    /\ (FilteredMap /\ DOMAIN arg.m = {}) => res.m = AnyMap(EmptyMap)
    /\ (FilteredStruct /\ \A i \in 1..Len(arg.fields) :
                              IsUnsetVar(arg.fields[i].val)) =>
           res.m = AnyMap(EmptyMap)

\* FilterMap has returned an empty mapping that is not nil for a mapping
\* whose entries were all dropped
C18_Witness ==
    /\ FilteredMap
    /\ DOMAIN arg.m = {A, B}
    /\ res.err = NoErr
    /\ res.m = AnyMap(EmptyMap) /\ ~res.m.isNil

IsSkipped(f, tag) ==
    \/ ~f.exported
    \/ ~f.embedded /\ tag \notin DOMAIN f.tags
    \/ KeyOf(f, tag) = <<"-">>
    \/ ~f.embedded /\ KeyOf(f, tag) = <<>>
    \/ f.embedded /\ KeyOf(f, tag) = <<>> /\ f.kind # "struct"

\* s without its field i
RemoveField(s, i) ==
    [s EXCEPT !.fields = SubSeq(s.fields, 1, i - 1) \o
                         SubSeq(s.fields, i + 1, Len(s.fields))]

\* C20: FilterStruct emits no entry for a field that is unexported, that is
\* named and has no entry under the tag, whose key candidate is "-", that
\* is named and has an empty key candidate, or that is embedded with an
\* empty key candidate and a kind other than struct, whatever its value:
\* the result is the one the struct has without that field.
C20_SkippedFields ==
    FilteredStruct =>
        \A i \in 1..Len(arg.fields) :
            IsSkipped(arg.fields[i], "json") =>
                /\ res.m.m = filterStruct("json", RemoveField(arg, i))
                /\ res.m.m = After(arg, i, "json", Before(arg, i, "json"))
                /\ Len(arg.fields) = 1 => res.m.m = EmptyMap

\* a struct with a live container under the key "-" and an unexported
\* live container has been filtered to the empty mapping
C20_Witness ==
    /\ FilteredStruct
    /\ Len(arg.fields) = 2
    /\ arg.fields[1] = Named(TRUE, JsonTag(<<"-">>), VV(2))
    /\ arg.fields[2] = Named(FALSE, JsonTag(A), VV(2))
    /\ res.m.m = EmptyMap

RECURSIVE BeforeComma(_)
\* the part of a tag value before its first comma
BeforeComma(s) ==
    IF s = <<>> \/ Head(s) = "," THEN <<>>
    ELSE <<Head(s)>> \o BeforeComma(Tail(s))

\* s with every json tag value of its fields cut at the first comma
WithoutTagOptions(s) ==
    [s EXCEPT !.fields = [i \in 1..Len(s.fields) |->
        LET f == s.fields[i] IN
        IF "json" \in DOMAIN f.tags
        THEN [f EXCEPT !.tags = [t \in DOMAIN f.tags |->
                 IF t = "json" THEN BeforeComma(f.tags[t]) ELSE f.tags[t]]]
        ELSE f]]

\* the tag value has segments after a first comma
HasTagOptions(f) ==
    /\ "json" \in DOMAIN f.tags
    /\ \E i \in 1..Len(f.tags["json"]) : f.tags["json"][i] = ","

\* C21: the output key of a field is the part of its tag value before the
\* first comma, and the segments after it change nothing: the result is
\* the one the struct has with the tag values cut at the first comma, and
\* a scalar field tagged "name,opt" is emitted under "name" with its
\* value, the zero value included.
C21_KeyBeforeComma ==
    FilteredStruct =>
        /\ res.m.m = filterStruct("json", WithoutTagOptions(arg))
        /\ \A i \in 1..Len(arg.fields) :
               LET f == arg.fields[i]
                   k == BeforeComma(f.tags["json"])
               IN (f.exported /\ HasTagOptions(f) /\ f.kind = "int64" /\ Usable(k)) =>
                      res.m.m = After(arg, i, "json",
                                      Put(Before(arg, i, "json"), k, f.val))

\* a field tagged "a,omitempty" holding the zero value has been emitted
\* under "a"
C21_Witness ==
    /\ FilteredStruct
    /\ Len(arg.fields) = 1
    /\ arg.fields[1] = Named(TRUE, JsonTag(A \o Omitempty), Int64(0))
    /\ res.m.m = (A :> Int64(0))

\* the field has something to emit: a container that is set, a Filterable
\* struct or a map[string]any that does not filter to nothing, any other
\* value
Emits(f, tag) ==
    IF f.kind = "interface" THEN TRUE
    ELSE IF f.val.kind = "Var" THEN f.val.c.set
    ELSE IF f.val.kind = "struct" /\ f.val.filterable
    THEN DOMAIN filterStruct(tag, f.val) # {}
    ELSE IF f.val.kind = "map[string]any" THEN DOMAIN ExpectedFilterMap(f.val.m) # {}
    ELSE TRUE

\* what it emits
EmittedValue(f, tag) == IF f.kind = "interface" THEN f.val ELSE OwnValue(f, tag)

\* the fields of s that emit directly under the key k
DirectFor(s, k, tag) ==
    {i \in 1..Len(s.fields) :
        /\ s.fields[i].exported /\ tag \in DOMAIN s.fields[i].tags
        /\ KeyOf(s.fields[i], tag) = k /\ Emits(s.fields[i], tag)}

\* the untagged embedded Filterable structs of s that hand up the key k
PromotedFor(s, k, tag) ==
    {i \in 1..Len(s.fields) :
        /\ IsPromoted(s.fields[i], tag)
        /\ k \in DOMAIN filterStruct(tag, s.fields[i].val)}

Max(S) == CHOOSE x \in S : \A y \in S : y <= x
Min(S) == CHOOSE x \in S : \A y \in S : x <= y

\* C22: when several fields resolve to one key, declaration order decides:
\* promoted entries never overwrite a key that is already there, and a
\* field emitting directly under its key overwrites what was there. So
\* under a usable key the output holds the value of the last-declared
\* field emitting directly under it, or, when there is none, the entry of
\* the first-declared embedded struct that hands the key up.
C22_DeclarationOrder ==
    FilteredStruct =>
        /\ \A k \in {<<"a">>, <<"b">>, <<"c">>} :
               LET D == DirectFor(arg, k, "json")
                   P == PromotedFor(arg, k, "json")
               IN /\ D # {} =>
                        /\ k \in DOMAIN res.m.m
                        /\ res.m.m[k] = EmittedValue(arg.fields[Max(D)], "json")
                  /\ (D = {} /\ P # {}) =>
                        /\ k \in DOMAIN res.m.m
                        /\ res.m.m[k] =
                               filterStruct("json", arg.fields[Min(P)].val)[k]
                  /\ (D = {} /\ P = {}) => k \notin DOMAIN res.m.m
        /\ \A i \in 1..Len(arg.fields) :
               LET pre == Before(arg, i, "json")
                   fs == filterStruct("json", arg.fields[i].val)
               IN IsPromoted(arg.fields[i], "json") =>
                      res.m.m = After(arg, i, "json",
                          [k \in DOMAIN pre \cup DOMAIN fs |->
                              IF k \in DOMAIN pre THEN pre[k] ELSE fs[k]])

\* a field declared after an embedded struct has overwritten the entry
\* promoted under the same key
C22_Witness ==
    /\ FilteredStruct
    /\ Len(arg.fields) = 2
    /\ arg.fields[1] = Embedded(NoTags, FA3)
    /\ arg.fields[2] = Named(TRUE, JsonTag(A), Int64(1))
    /\ res.m.m = (A :> Int64(1))

-----------------------------------------------------------------------------
(* The engine's contract under options (checked under SpecTag) *)

\* the tag name a list of options selects
TagOf(opts) == applyOpts(defaultFilterOpts, opts).tag

\* FilterStruct has returned the mapping of a struct under a custom tag
FilteredUnderCustomTag ==
    FilteredStruct /\ TagOf(res.opts) = "custom_tag"

RECURSIVE TaggedKeys(_, _)
\* the keys that the exported fields carrying the tag have under it, the
\* fields of embedded structs included
TaggedKeys(s, tag) ==
    {KeyOf(s.fields[i], tag) :
        i \in {j \in 1..Len(s.fields) :
                 s.fields[j].exported /\ tag \in DOMAIN s.fields[j].tags}}
    \cup UNION {TaggedKeys(s.fields[i].val, tag) :
        i \in {j \in 1..Len(s.fields) :
                 s.fields[j].embedded /\ s.fields[j].val.kind = "struct"}}

RECURSIVE KeysFromTag(_, _, _)
\* every key of out, the mapping produced from s, is the key that a field
\* carrying the tag has under it; the same holds inside every nested
\* mapping that was produced from a Filterable field of s
KeysFromTag(s, out, tag) ==
    \A k \in DOMAIN out :
        /\ k \in TaggedKeys(s, tag)
        /\ \A i \in 1..Len(s.fields) :
               LET f == s.fields[i] IN
               (/\ f.exported /\ KeyOf(f, tag) = k /\ IsFilterable(f.val)
                /\ out[k] = AnyMap(filterStruct(tag, f.val))) =>
                   KeysFromTag(f.val, out[k].m, tag)

\* C12 as stated: under UseTag("custom_tag") every key of the output, at
\* every nesting level, is the custom_tag key of a field that carries
\* custom_tag; a field without it contributes no key, json tag or not.
C12_KeysOnlyFromTag ==
    FilteredUnderCustomTag => KeysFromTag(arg, res.m.m, "custom_tag")

\* C14: an empty tag name means "use the default": FilterStruct(s,
\* UseTag("")) returns the mapping FilterStruct(s) returns, whose keys are
\* found in the json tag.
C14_EmptyTagIsDefault ==
    (FilteredStruct /\ res.opts = <<"">>) =>
        /\ res.err = NoErr
        /\ res.m = FilterStruct(arg, <<>>).m
        /\ res.m = AnyMap(filterStruct("json", arg))

\* FilterStruct with UseTag("") has emitted a field that carries both tags
\* under its json key
C14_Witness ==
    /\ FilteredStruct /\ res.opts = <<"">>
    /\ Len(arg.fields) = 1
    /\ arg.fields[1].tags = BothTags(B, C)
    /\ res.m.m = (B :> Int64(1))

-----------------------------------------------------------------------------
(* The engine's contract on maps in memory (checked under SpecHeap) *)

\* an address the call allocated
IsFresh(a) == a \in DOMAIN heap /\ a \notin DOMAIN input.heap

RECURSIVE FreshCopy(_, _)
\* in the map at out, built by filtering the map at src, every entry that
\* comes from a nested map[string]any is a map the call allocated, and so
\* on inside it
FreshCopy(src, out) ==
    \A k \in DOMAIN heap[out] :
        LET x == input.heap[src][k] IN
        (x.kind = "map[string]any" /\ ~x.isNil) =>
            /\ heap[out][k].kind = "map[string]any"
            /\ IsFresh(heap[out][k].addr)
            /\ FreshCopy(x.addr, heap[out][k].addr)

RECURSIVE FreshStruct(_, _)
\* the same for the map at out built by filtering the struct s
FreshStruct(s, out) ==
    \A i \in 1..Len(s.fields) :
        LET f == s.fields[i]
            k == KeyOf(f, "json")
        IN /\ (HasOwnKey(f, "json") /\ f.val.kind = "map[string]any"
                /\ k \in DOMAIN heap[out]) =>
                  /\ IsFresh(heap[out][k].addr)
                  /\ FreshCopy(f.val.addr, heap[out][k].addr)
           /\ (HasOwnKey(f, "json") /\ IsFilterable(f.val)
                /\ k \in DOMAIN heap[out]) =>
                  /\ IsFresh(heap[out][k].addr)
                  /\ FreshStruct(f.val, heap[out][k].addr)
           /\ IsPromoted(f, "json") => FreshStruct(f.val, out)

\* C23: FilterStruct and FilterMap are pure projections. At every step of
\* a call and after it, every map of the caller holds what it held before
\* the call; every map a frame builds is one the call allocated, no two
\* frames build the same map; the mapping returned and every nested
\* mapping produced by filtering a nested map or struct are maps the call
\* allocated.
C23_PureProjection ==
    /\ \A a \in DOMAIN input.heap : heap[a] = input.heap[a]
    /\ \A i \in 1..Len(stack) :
           /\ IsFresh(stack[i].retMap)
           /\ \A j \in 1..Len(stack) : i # j => stack[i].retMap # stack[j].retMap
    /\ ret # 0 => IsFresh(ret)
    /\ run.status = "returned" =>
           /\ IsFresh(run.m.addr)
           /\ input.root.kind = "map[string]any" =>
                  FreshCopy(input.root.addr, run.m.addr)
           /\ input.root.kind = "struct" => FreshStruct(input.root, run.m.addr)

\* FilterMap has returned for a map that holds a live container and a
\* nested map: the nested mapping of the result is not the caller's
C23_Witness ==
    /\ run.status = "returned"
    /\ input.root = Ref(1)
    /\ input.heap[1] = (A :> Ref(2)) @@ (B :> VV(2))
    /\ input.heap[2] = (A :> VV(2))
    /\ heap[run.m.addr][B] = Int64(2)
    /\ heap[run.m.addr][A] # Ref(2)
    /\ heap[heap[run.m.addr][A].addr] = (A :> Int64(2))

\* the maps that the entries of the caller's map at a refer to
Succ(a) ==
    {input.heap[a][k].addr :
        k \in {j \in DOMAIN input.heap[a] :
                 input.heap[a][j].kind = "map[string]any" /\ ~input.heap[a][j].isNil}}

RECURSIVE Closure(_, _)
\* the maps reached from the maps S in at most n steps
Closure(S, n) ==
    IF n = 0 THEN S ELSE Closure(S \cup UNION {Succ(a) : a \in S}, n - 1)

RECURSIVE RefsOf(_)
\* the maps that the fields of a struct refer to, nested structs included
RefsOf(s) ==
    UNION {LET x == s.fields[i].val IN
           IF x.kind = "map[string]any" /\ ~x.isNil THEN {x.addr}
           ELSE IF x.kind = "struct" THEN RefsOf(x)
           ELSE {} : i \in 1..Len(s.fields)}

\* the maps the engine descends into from what the caller passed
RootMaps ==
    IF input.root.kind = "map[string]any" /\ ~input.root.isNil
    THEN {input.root.addr}
    ELSE IF input.root.kind = "struct" THEN RefsOf(input.root)
    ELSE {}

\* a map the engine descends into contains itself, directly or not
HasCycle ==
    \E a \in Closure(RootMaps, MaxMaps) : a \in Closure(Succ(a), MaxMaps)

RECURSIVE MapDepth(_)
\* the nesting depth of the caller's map at a
MapDepth(a) ==
    IF Succ(a) = {} THEN 1
    ELSE 1 + Max({MapDepth(b) : b \in Succ(a)})

RECURSIVE StructDepth(_)
StructDepth(s) ==
    1 + Max({0} \cup
            {LET x == s.fields[i].val IN
             IF x.kind = "map[string]any" /\ ~x.isNil THEN MapDepth(x.addr)
             ELSE IF x.kind = "struct" THEN StructDepth(x)
             ELSE 0 : i \in 1..Len(s.fields)})

\* the nesting depth of what the caller passed
InputDepth ==
    IF input.root.kind = "map[string]any" /\ ~input.root.isNil
    THEN MapDepth(input.root.addr)
    ELSE IF input.root.kind = "struct" THEN StructDepth(input.root)
    ELSE 0

Done == run.status \in {"returned", "failed"}

\* C24 as amended: on an input in which no map contains itself, directly
\* or through other maps, the stack never holds more frames than the
\* input has nesting levels and the call returns.
C24_TerminatesWithoutCycle ==
    /\ [](~HasCycle => /\ Len(stack) <= InputDepth
                       /\ run.status # "stack overflow")
    /\ (run.status = "idle" /\ ~HasCycle) ~> Done

\* FilterStruct has returned after filterStruct, a nested filterStruct and
\* filterMap on two nested maps had run
C24_Witness ==
    /\ run.status = "returned"
    /\ input.root.kind = "struct"
    /\ InputDepth = MaxMaps + 2
    /\ Len(heap) = Len(input.heap) + MaxMaps + 2

\* C24 as stated: every call returns.
C24_Terminates == <>Done

-----------------------------------------------------------------------------
(* The container's contract on failure (checked under SpecVar) *)

\* the last call was UnmarshalJSON or Scan and it returned an error
DecodeFailed ==
    /\ last.op \in {"UnmarshalJSON", "Scan"}
    /\ last.err # NoErr

\* C27: when UnmarshalJSON fails to decode the payload or Scan fails to
\* coerce a non-null input, the error is returned and the container is
\* left set and valid; it is not put back into the state it had before
\* the call.
C27_FailureLeavesSetValid ==
    DecodeFailed =>
        /\ last.in # Nil /\ last.in # Bytes(nullBytes)
        /\ v.set /\ v.valid
        /\ (~last.pre.set \/ ~last.pre.valid) => v # last.pre

\* Scan on an unset container failed and left it set and valid
C27_Witness ==
    /\ last.op = "Scan" /\ last.err # NoErr
    /\ ~last.pre.set
    /\ v.set /\ v.valid

-----------------------------------------------------------------------------
(* Round trips of the container (checked under SpecVar) *)

\* the last call was UnmarshalJSON on what MarshalJSON gave for the container
JSONRoundTrip ==
    /\ last.op = "UnmarshalJSON"
    /\ last.in = Bytes(MarshalJSON(last.pre).data)

\* the last call was Scan on what Value gave for the container
ScanRoundTrip ==
    /\ last.op = "Scan"
    /\ last.in = Value(T, last.pre).val

ExplicitNull(t) == Var(TRUE, FALSE, Zero(t))

\* a valid payload that encoding/json writes as the null marker
EncodesAsNull(c) == c.set /\ c.valid /\ jsonMarshal(c.value) = nullBytes

\* C28: UnmarshalJSON(MarshalJSON(v)) and Scan(Value(v)) succeed, turn an
\* unset v into the explicit null, and give a set v back as it was, except
\* that UnmarshalJSON(MarshalJSON(v)) turns a valid v whose payload is
\* encoded as null into the explicit null.
C28_RoundTrips ==
    (JSONRoundTrip \/ ScanRoundTrip) =>
        /\ last.err = NoErr
        /\ v = IF ~last.pre.set THEN ExplicitNull(T)
               ELSE IF JSONRoundTrip /\ EncodesAsNull(last.pre) THEN ExplicitNull(T)
               ELSE last.pre

\* a JSON round trip has given back a valid container with a payload of
\* two elements
C28_Witness ==
    /\ JSONRoundTrip
    /\ last.pre.set /\ last.pre.valid
    /\ v = last.pre
    /\ T = "customDefinedSlice"
    /\ ~v.value.isNil /\ Len(v.value.elems) = MaxSliceLen

\* C28 as stated: both round trips give every set v back as it was and
\* turn an unset v into the explicit null.
C28_RoundTripsRestoreEverySet ==
    (JSONRoundTrip \/ ScanRoundTrip) =>
        v = IF last.pre.set THEN last.pre ELSE ExplicitNull(T)

-----------------------------------------------------------------------------
(* The keys of the output (checked under Spec) *)

RECURSIVE NoEmptyKeyIn(_)
\* no key of the mapping m, nor of a mapping nested in it, is empty
NoEmptyKeyIn(m) ==
    \A k \in DOMAIN m :
        /\ k # <<>>
        /\ (m[k].kind = "map[string]any" /\ ~m[k].isNil) => NoEmptyKeyIn(m[k].m)

\* C29: every key of the mapping FilterStruct returns, and of every
\* mapping nested in it, is a non-empty string.
C29_NoEmptyKey ==
    (res.op = "FilterStruct" /\ res.err = NoErr) => NoEmptyKeyIn(res.m.m)

-----------------------------------------------------------------------------
(* The struct filter against the map filter (checked under Spec) *)

\* the exported fields of s that carry the json tag
TaggedFields(s) ==
    {i \in 1..Len(s.fields) :
        s.fields[i].exported /\ "json" \in DOMAIN s.fields[i].tags}

\* the field f is declared as a container or as a scalar
IsVarOrScalar(f) ==
    /\ f.val.kind \in {"Var", "int64", "bool"}
    /\ f.kind = Kind(f.val)

\* the exported tagged fields of s are containers and scalars under
\* pairwise distinct non-empty keys, and no field is embedded without a tag
VarsAndScalars(s) ==
    /\ s.kind = "struct"
    /\ TaggedFields(s) # {}
    /\ \A i \in 1..Len(s.fields) :
           (s.fields[i].exported /\ s.fields[i].embedded) => i \in TaggedFields(s)
    /\ \A i \in TaggedFields(s) :
           /\ IsVarOrScalar(s.fields[i])
           /\ KeyOf(s.fields[i], "json") # <<>>
    /\ \A i, j \in TaggedFields(s) :
           i # j => KeyOf(s.fields[i], "json") # KeyOf(s.fields[j], "json")

\* no tagged field of s has the skip marker as its key
NoSkipMarker(s) ==
    \A i \in TaggedFields(s) : KeyOf(s.fields[i], "json") # <<"-">>

\* the mapping from each tagged field's key to that field's value
FieldMap(s) ==
    [k \in {KeyOf(s.fields[i], "json") : i \in TaggedFields(s)} |->
        s.fields[CHOOSE i \in TaggedFields(s) : KeyOf(s.fields[i], "json") = k].val]

\* C30: for a struct whose exported tagged fields are containers and
\* scalars under pairwise distinct non-empty keys, none of them the skip
\* marker "-", FilterStruct returns what FilterMap returns for the mapping
\* from each field's key to the field's value.
C30_StructAgreesWithMap ==
    (FilteredStruct /\ VarsAndScalars(arg) /\ NoSkipMarker(arg)) =>
        /\ res.err = NoErr
        /\ res.m = FilterMap(AnyMap(FieldMap(arg))).m

\* an unset container under "a" and a valid one under "b": both filters
\* drop the first and give the payload of the second
C30_Witness ==
    /\ FilteredStruct /\ VarsAndScalars(arg) /\ NoSkipMarker(arg)
    /\ Len(arg.fields) = 2
    /\ arg.fields[1].val = VU /\ KeyOf(arg.fields[1], "json") = A
    /\ arg.fields[2].val = VV(2) /\ KeyOf(arg.fields[2], "json") = B
    /\ res.m = AnyMap(B :> Int64(2))
    /\ res.m = FilterMap(AnyMap(FieldMap(arg))).m

\* C30 as stated: the two filters agree whatever the non-empty keys are.
C30_AgreesForEveryKey ==
    (FilteredStruct /\ VarsAndScalars(arg)) =>
        res.m = FilterMap(AnyMap(FieldMap(arg))).m

-----------------------------------------------------------------------------
(* The options' contract (checked under SpecTag) *)

\* the positions of the options whose tag is not the empty string
NonEmptyOpts(opts) == {i \in 1..Len(opts) : opts[i] # ""}

\* the argument of the last UseTag with a non-empty string, "json" without one
LastNonEmptyTag(opts) ==
    IF NonEmptyOpts(opts) = {} THEN "json" ELSE opts[Max(NonEmptyOpts(opts))]

\* C26: the tag a FilterStruct call discovers keys with is the argument of
\* the last UseTag with a non-empty string among its options, "json" when
\* there is none; UseTag("") leaves the tag chosen so far as it is.
C26_LastNonEmptyTagWins ==
    (res.op = "FilterStruct" /\ res.err = NoErr) =>
        /\ res.m = AnyMap(filterStruct(LastNonEmptyTag(res.opts), arg))
        /\ \A i \in 1..Len(res.opts) :
               res.opts[i] = "" =>
                   TagOf(SubSeq(res.opts, 1, i)) = TagOf(SubSeq(res.opts, 1, i - 1))

\* UseTag("custom_tag") followed by UseTag(""): the struct was filtered by
\* its custom tags, which give another mapping than its json tags
C26_Witness ==
    /\ res.op = "FilterStruct" /\ res.err = NoErr
    /\ res.opts = <<"custom_tag", "">>
    /\ res.m = AnyMap(filterStruct("custom_tag", arg))
    /\ res.m # AnyMap(filterStruct("json", arg))

-----------------------------------------------------------------------------
(* The engine's contract under concurrency (checked under SpecCalls) *)

\* C25: calls to FilterStruct are independent: however the calls are
\* interleaved, the tag a call filters with is the one its own options
\* select, its result is the one the call gives when it runs alone, and
\* the package-level default tag is "json" in every state.
C25_CallsIndependent ==
    /\ pkg = [tag |-> "json"]
    /\ \A p \in 1..MaxCalls :
           /\ (calls[p].pc = "opts" /\ calls[p].k > Len(calls[p].opts)) =>
                  calls[p].fOpts.tag = TagOf(calls[p].opts)
           /\ calls[p].pc = "done" =>
                  /\ calls[p].m = FilterStruct(calls[p].s, calls[p].opts).m
                  /\ calls[p].err = FilterStruct(calls[p].s, calls[p].opts).err

\* two calls on the same struct, one with UseTag("custom_tag") and one
\* without options, have both returned, each with the keys of its own tag
C25_Witness ==
    /\ calls[1].pc = "done" /\ calls[2].pc = "done"
    /\ calls[1].s = calls[2].s
    /\ calls[1].opts = <<"custom_tag">> /\ calls[2].opts = <<>>
    /\ calls[1].m = AnyMap(B :> Int64(2))
    /\ calls[2].m = AnyMap(A :> Int64(2))

====
